---- MODULE Spec2Model ----
(***************************************************************************)
(* Model of the thermonitor telemetry lambdas: the query builder, the      *)
(* pagination engine, the value marshaler and the ingestion path of        *)
(* go/src/telemetry (package utils and the by-device, by-location and      *)
(* by-project handlers), and the authorizer lambda.                        *)
(*                                                                         *)
(* Go values are represented as follows.                                   *)
(*   - a pointer field (aws.String, aws.Int32, aws.Bool) is an option:     *)
(*     None is the nil pointer, Some(x) points to x;                       *)
(*   - a Go map is a function on the set of its keys; where the code       *)
(*     tells a nil map from an empty one (continuation keys) the map is    *)
(*     wrapped in a record with an isNil flag;                             *)
(*   - a Go slice that is tested or encoded as nil (the accumulated items) *)
(*     is a record with an isNil flag and the sequence of its elements.    *)
(***************************************************************************)
EXTENDS Integers, Sequences, FiniteSets, TLC

VARIABLES
    pc,         \* position of the invocation: idle, waitQuery, waitPut, done, fatal
    request,    \* events.APIGatewayProxyRequest of the running invocation, with its route
    input,      \* *dynamodb.QueryInput built and mutated by the handler
    single,     \* the handler's local `single`
    output,     \* the last *dynamodb.QueryOutput received
    items,      \* the handler's accumulated `items` slice
    response,   \* the events.APIGatewayProxyResponse returned, None before the return
    queries,    \* history: the QueryInput of every Query call of the invocation
    served,     \* history: the QueryOutput of every successful Query call
    puts,       \* history: the PutItemInput of every PutItem call of the invocation
    marshaled,  \* history: the argument of every top-level MapToAttributeValues call
    anyIn,      \* marshaler harness: the dynamic value tree handed to the marshaler
    attOut,     \* marshaler harness: the attribute values it returned
    authorizer, \* authorizer lambda: which revision of the authorizer is deployed
    authCalls,  \* authorizer lambda: history of its calls, each with its event and result
    build,      \* builder harness: the stage and the locals of one descriptor construction
    heap,       \* concurrent invocations: the QueryInput objects allocated, by address
    invocations \* concurrent invocations: the locals of each running invocation

vars == <<pc, request, input, single, output, items, response,
          queries, served, puts, marshaled, anyIn, attOut, authorizer, authCalls,
          build, heap, invocations>>

handlerVars == <<pc, request, input, single, output, items, response,
                 queries, served, puts, marshaled>>

marshalVars == <<anyIn, attOut>>

authVars == <<authorizer, authCalls>>

\* what the steps of each part of the model leave alone
notHandlerVars == <<marshalVars, authVars, build, heap, invocations>>

notMarshalVars == <<handlerVars, authVars, build, heap, invocations>>

notAuthVars == <<handlerVars, marshalVars, build, heap, invocations>>

notBuilderVars == <<handlerVars, marshalVars, authVars, heap, invocations>>

notConcurrentVars == <<handlerVars, marshalVars, authVars, build>>

-----------------------------------------------------------------------------
(* Bounds of the model.                                                    *)

\* The store has returned its last page by the MaxQueries-th query.
MaxQueries == 3

\* Dynamic value trees handed to the marshaler harness have at most MaxNodes nodes.
MaxNodes == 4

-----------------------------------------------------------------------------
(* Go pointers, maps and slices.                                           *)

None == <<>>

Some(x) == <<x>>

EmptyMap == <<>>

\* m[k] of a Go map[string]string: the zero value "" for a missing key.
Lookup(m, k) == IF k \in DOMAIN m THEN m[k] ELSE ""

\* the `v, ok := m[k]` form
Has(m, k) == k \in DOMAIN m

\* m[k] = v on a Go map
MapSet(m, k, v) == (k :> v) @@ m

\* `var items []T`
NilSlice == [isNil |-> TRUE, s |-> <<>>]

\* append(slice, more...): a nil slice stays nil when nothing is appended.
Append_(slice, more) ==
    IF Len(more) = 0 THEN slice ELSE [isNil |-> FALSE, s |-> slice.s \o more]

\* the decimal digits of a natural number
Digit == <<"0", "1", "2", "3", "4", "5", "6", "7", "8", "9">>

RECURSIVE IntToStr(_)
IntToStr(n) ==
    IF n < 10 THEN Digit[n + 1] ELSE IntToStr(n \div 10) \o Digit[(n % 10) + 1]

-----------------------------------------------------------------------------
(* types.AttributeValue: the tagged union of the store's typed values.     *)
(* Every variant is a record of the same fields so that any two values     *)
(* can be compared; t is the variant, and only the field of that variant   *)
(* is meaningful (s for S and N, b for BOOL and NULL, l for L, m for M).   *)

AttributeValueMemberS(v) == [t |-> "S", s |-> v, b |-> FALSE, l |-> <<>>, m |-> EmptyMap]

AttributeValueMemberN(v) == [t |-> "N", s |-> v, b |-> FALSE, l |-> <<>>, m |-> EmptyMap]

AttributeValueMemberBOOL(v) == [t |-> "BOOL", s |-> "", b |-> v, l |-> <<>>, m |-> EmptyMap]

AttributeValueMemberL(v) == [t |-> "L", s |-> "", b |-> FALSE, l |-> v, m |-> EmptyMap]

AttributeValueMemberM(v) == [t |-> "M", s |-> "", b |-> FALSE, l |-> <<>>, m |-> v]

AttributeValueMemberNULL(v) == [t |-> "NULL", s |-> "", b |-> v, l |-> <<>>, m |-> EmptyMap]

-----------------------------------------------------------------------------
(* Continuation keys (QueryOutput.LastEvaluatedKey, ExclusiveStartKey).    *)

\* the nil map: the store reports no continuation key
NilKey == [isNil |-> TRUE, m |-> EmptyMap]

\* a map that is allocated but has no entry
ZeroKey == [isNil |-> FALSE, m |-> EmptyMap]

\* the key the store returns with its n-th page when more pages follow
PageKey(n) ==
    [isNil |-> FALSE, m |-> ("EpochTime" :> AttributeValueMemberN(IntToStr(n)))]

\* len(key) of a Go map
KeyLen(key) == Cardinality(DOMAIN key.m)

-----------------------------------------------------------------------------
(* Inbound requests.                                                       *)

\* The four deployed read/write handlers: deviceEndpointHandler and
\* locationEndpointHandler built on package utils, the inline
\* locationEndpointHandler, and projectEndpointHandler.
Handlers == {"device", "location", "locationInline", "project"}

Methods == {"GET", "POST", "DELETE"}

ProjectIds == {"p1", "p2"}

DeviceIds == {"d1"}

LocationIds == {"l1"}

StartValues == {"5", "x"}

EndValues == {"9"}

SingleValues == {"true", "T", "false", "yes"}

\* the path parameters the transport layer extracts for each route
PathParametersOf(h) ==
    IF h = "device"
    THEN {("ProjectId" :> p) @@ ("DeviceId" :> d) : p \in ProjectIds, d \in DeviceIds}
    ELSE IF h \in {"location", "locationInline"}
    THEN {("ProjectId" :> p) @@ ("LocationId" :> l) : p \in ProjectIds, l \in LocationIds}
    ELSE {("ProjectId" :> p) : p \in ProjectIds}

ValuesOfParam(k) ==
    IF k = "start" THEN StartValues
    ELSE IF k = "end" THEN EndValues
    ELSE SingleValues

\* every map of query string parameters over start, end and single
QueryStringParameterMaps ==
    UNION {{q \in [D -> StartValues \cup EndValues \cup SingleValues] :
                \A k \in D : q[k] \in ValuesOfParam(k)} :
           D \in SUBSET {"start", "end", "single"}}

-----------------------------------------------------------------------------
(* strconv.ParseBool                                                       *)

ParseBoolTrue == {"1", "t", "T", "TRUE", "true", "True"}

ParseBoolFalse == {"0", "f", "F", "FALSE", "false", "False"}

\* the value and the error of strconv.ParseBool(str)
ParseBool(str) ==
    IF str \in ParseBoolTrue THEN [value |-> TRUE, err |-> FALSE]
    ELSE IF str \in ParseBoolFalse THEN [value |-> FALSE, err |-> FALSE]
    ELSE [value |-> FALSE, err |-> TRUE]

-----------------------------------------------------------------------------
(* Package utils: the query builder.                                       *)

TABLE_NAME == "constants.TABLE_NAME"

\* the zero dynamodb.QueryInput
ZeroQueryInput ==
    [TableName |-> None, IndexName |-> None,
     ExpressionAttributeNames |-> EmptyMap,
     ExpressionAttributeValues |-> EmptyMap,
     KeyConditionExpression |-> None,
     Limit |-> None, ScanIndexForward |-> None,
     ExclusiveStartKey |-> NilKey]

\* a key that joins the two values in the opposite order
CreateCompositeKey_Swapped(req, param1, param2) ==
    Lookup(req.PathParameters, param2) \o "#" \o Lookup(req.PathParameters, param1)

CreateCompositeKey(req, param1, param2) ==
    Lookup(req.PathParameters, param1) \o "#" \o Lookup(req.PathParameters, param2)

\* a descriptor whose placeholders are bound the wrong way round
CreateQueryInput_SwapsNameAndValue(primaryName, primaryValue) ==
    [ZeroQueryInput EXCEPT
        !.TableName = Some(TABLE_NAME),
        !.ExpressionAttributeNames = ("#primaryName" :> primaryValue),
        !.ExpressionAttributeValues =
            (":primaryValue" :> AttributeValueMemberS(primaryName))]

CreateQueryInput(primaryName, primaryValue) ==
    [ZeroQueryInput EXCEPT
        !.TableName = Some(TABLE_NAME),
        !.ExpressionAttributeNames = ("#primaryName" :> primaryName),
        !.ExpressionAttributeValues =
            (":primaryValue" :> AttributeValueMemberS(primaryValue))]

\* a single-mode evaluation that takes the presence of the parameter for true
EvaluateSingleParam_PresenceOnly(req, in) ==
    LET singleOk == Has(req.QueryStringParameters, "single")
    IN  [single |-> singleOk,
         input |-> IF singleOk
                   THEN [in EXCEPT !.Limit = Some(1), !.ScanIndexForward = Some(FALSE)]
                   ELSE in]

\* a single mode that caps the result and keeps the ascending order
EvaluateSingleParam_KeepsAscending(req, in) ==
    LET singleOk == Has(req.QueryStringParameters, "single")
        singleStr == Lookup(req.QueryStringParameters, "single")
        parsed == IF singleOk THEN ParseBool(singleStr).value ELSE FALSE
    IN  [single |-> parsed,
         input |-> IF singleOk /\ parsed THEN [in EXCEPT !.Limit = Some(1)] ELSE in]

\* returns the local `single` and the input as the call leaves it
EvaluateSingleParam(req, in) ==
    LET singleOk == Has(req.QueryStringParameters, "single")
        singleStr == Lookup(req.QueryStringParameters, "single")
        parsed == IF singleOk THEN ParseBool(singleStr).value ELSE FALSE
    IN  [single |-> parsed,
         input |-> IF singleOk /\ parsed
                   THEN [in EXCEPT !.Limit = Some(1), !.ScanIndexForward = Some(FALSE)]
                   ELSE in]

\* a time range that is set on a fresh descriptor, losing the cap and the order
setTimeRange_DropsCap(in, start, end) ==
    [in EXCEPT
        !.KeyConditionExpression =
            Some("#primaryName = :primaryValue AND EpochTime BETWEEN :start AND :end"),
        !.ExpressionAttributeValues =
            MapSet(MapSet(@, ":start", AttributeValueMemberN(start)),
                   ":end", AttributeValueMemberN(end)),
        !.Limit = None,
        !.ScanIndexForward = None]

setTimeRange(in, start, end) ==
    [in EXCEPT
        !.KeyConditionExpression =
            Some("#primaryName = :primaryValue AND EpochTime BETWEEN :start AND :end"),
        !.ExpressionAttributeValues =
            MapSet(MapSet(@, ":start", AttributeValueMemberN(start)),
                   ":end", AttributeValueMemberN(end))]

setLowerTimeBound(in, start) ==
    [in EXCEPT
        !.KeyConditionExpression =
            Some("#primaryName = :primaryValue AND EpochTime >= :start"),
        !.ExpressionAttributeValues = MapSet(@, ":start", AttributeValueMemberN(start))]

setUpperTimeBound(in, end) ==
    [in EXCEPT
        !.KeyConditionExpression =
            Some("#primaryName = :primaryValue AND EpochTime <= :end"),
        !.ExpressionAttributeValues = MapSet(@, ":end", AttributeValueMemberN(end))]

\* a switch that tests the single bounds before the pair
EvaluateStartEndParams_StartFirst(req, in) ==
    LET startOk == Has(req.QueryStringParameters, "start")
        endOk == Has(req.QueryStringParameters, "end")
        start == Lookup(req.QueryStringParameters, "start")
        end == Lookup(req.QueryStringParameters, "end")
    IN  IF startOk THEN setLowerTimeBound(in, start)
        ELSE IF endOk THEN setUpperTimeBound(in, end)
        ELSE IF startOk /\ endOk THEN setTimeRange(in, start, end)
        ELSE [in EXCEPT !.KeyConditionExpression = Some("#primaryName = :primaryValue")]

EvaluateStartEndParams(req, in) ==
    LET startOk == Has(req.QueryStringParameters, "start")
        endOk == Has(req.QueryStringParameters, "end")
        start == Lookup(req.QueryStringParameters, "start")
        end == Lookup(req.QueryStringParameters, "end")
    IN  IF startOk /\ endOk THEN setTimeRange(in, start, end)
        ELSE IF startOk THEN setLowerTimeBound(in, start)
        ELSE IF endOk THEN setUpperTimeBound(in, end)
        ELSE [in EXCEPT !.KeyConditionExpression = Some("#primaryName = :primaryValue")]

\* deviceEndpointHandler, lines 22-34: the descriptor and the local `single`
DeviceBuildQuery(req) ==
    LET primaryValue == CreateCompositeKey(req, "ProjectId", "DeviceId")
        in0 == CreateQueryInput("ProjectId#DeviceId", primaryValue)
        ev == EvaluateSingleParam(req, in0)
    IN  [single |-> ev.single, input |-> EvaluateStartEndParams(req, ev.input)]

\* locationEndpointHandler on package utils: the descriptor and the local `single`
LocationBuildQuery(req) ==
    LET primaryValue == CreateCompositeKey(req, "ProjectId", "LocationId")
        in0 == [CreateQueryInput("ProjectId#LocationId", primaryValue)
                    EXCEPT !.IndexName = Some("ProjectIdLocationId-EpochTime-index")]
        ev == EvaluateSingleParam(req, in0)
    IN  [single |-> ev.single, input |-> EvaluateStartEndParams(req, ev.input)]

-----------------------------------------------------------------------------
(* The inline query builders of the handlers that do not use package utils. *)

\* locationEndpointHandler, inline version: the descriptor and the local `single`
LocationInlineBuildQuery(req) ==
    LET primaryKey == Lookup(req.PathParameters, "ProjectId") \o "#"
                        \o Lookup(req.PathParameters, "LocationId")
        in0 == [ZeroQueryInput EXCEPT
                    !.TableName = Some("Telemetry"),
                    !.IndexName = Some("ProjectIdLocationId-EpochTime-index"),
                    !.ExpressionAttributeNames = ("#primaryKey" :> "ProjectId#LocationId"),
                    !.ExpressionAttributeValues =
                        (":project_location" :> AttributeValueMemberS(primaryKey))]
        singleOk == Has(req.QueryStringParameters, "single")
        singleStr == Lookup(req.QueryStringParameters, "single")
        sgl == IF singleOk THEN ParseBool(singleStr).value ELSE FALSE
        in1 == IF singleOk /\ sgl
               THEN [in0 EXCEPT !.Limit = Some(1), !.ScanIndexForward = Some(FALSE)]
               ELSE in0
        startOk == Has(req.QueryStringParameters, "start")
        endOk == Has(req.QueryStringParameters, "end")
        start == Lookup(req.QueryStringParameters, "start")
        end == Lookup(req.QueryStringParameters, "end")
        in2 ==
            IF startOk /\ endOk
            THEN [in1 EXCEPT
                    !.KeyConditionExpression = Some(
                        "#primaryKey = :project_location AND EpochTime BETWEEN :start AND :end"),
                    !.ExpressionAttributeValues =
                        MapSet(MapSet(@, ":start", AttributeValueMemberN(start)),
                               ":end", AttributeValueMemberN(end))]
            ELSE IF startOk
            THEN [in1 EXCEPT
                    !.KeyConditionExpression = Some(
                        "#primaryKey = :project_location AND EpochTime >= :start"),
                    !.ExpressionAttributeValues =
                        MapSet(@, ":start", AttributeValueMemberN(start))]
            ELSE IF endOk
            THEN [in1 EXCEPT
                    !.KeyConditionExpression = Some(
                        "#primaryKey = :project_location AND EpochTime <= :end"),
                    !.ExpressionAttributeValues =
                        MapSet(@, ":end", AttributeValueMemberN(end))]
            ELSE [in1 EXCEPT
                    !.KeyConditionExpression = Some("#primaryKey = :project_location")]
    IN  [single |-> sgl, input |-> in2]

\* projectEndpointHandler, lines 37-58: the base descriptor and the local `single`
ProjectSingle(req) ==
    LET in0 == [ZeroQueryInput EXCEPT
                    !.TableName = Some("Telemetry"),
                    !.IndexName = Some("ProjectId-EpochTime-index"),
                    !.ExpressionAttributeValues =
                        (":project" :> AttributeValueMemberS(
                                            Lookup(req.PathParameters, "ProjectId")))]
        singleOk == Has(req.QueryStringParameters, "single")
        singleStr == Lookup(req.QueryStringParameters, "single")
        sgl == IF singleOk THEN ParseBool(singleStr).value ELSE FALSE
    IN  [single |-> sgl,
         input |-> IF singleOk /\ sgl
                   THEN [in0 EXCEPT !.Limit = Some(1), !.ScanIndexForward = Some(FALSE)]
                   ELSE in0]

\* projectEndpointHandler, lines 60-90: the switch on start and end
ProjectStartEnd(req, in) ==
    LET startOk == Has(req.QueryStringParameters, "start")
        endOk == Has(req.QueryStringParameters, "end")
        start == Lookup(req.QueryStringParameters, "start")
        end == Lookup(req.QueryStringParameters, "end")
    IN  IF startOk /\ endOk
        THEN [in EXCEPT
                !.KeyConditionExpression = Some(
                    "ProjectId = :project AND EpochTime BETWEEN :start AND :end"),
                !.ExpressionAttributeValues =
                    MapSet(MapSet(@, ":start", AttributeValueMemberN(start)),
                           ":end", AttributeValueMemberN(end))]
        ELSE IF startOk
        THEN [in EXCEPT
                !.KeyConditionExpression = Some(
                    "ProjectId = :project AND EpochTime >= :start"),
                !.ExpressionAttributeValues =
                    MapSet(@, ":start", AttributeValueMemberN(start))]
        ELSE IF endOk
        THEN [in EXCEPT
                !.KeyConditionExpression = Some(
                    "ProjectId = :project AND EpochTime <= :end"),
                !.ExpressionAttributeValues =
                    MapSet(@, ":end", AttributeValueMemberN(end))]
        ELSE [in EXCEPT !.KeyConditionExpression = Some("ProjectId = :project")]

\* projectEndpointHandler, lines 37-90: the descriptor and the local `single`
ProjectBuildQuery(req) ==
    LET ev == ProjectSingle(req)
    IN  [single |-> ev.single, input |-> ProjectStartEnd(req, ev.input)]

-----------------------------------------------------------------------------
(* The store as the handlers see it: items and pages of query results.     *)

\* a stored record, reduced to its sort key
StoreItem(epoch) == ("EpochTime" :> AttributeValueMemberN(epoch))

\* the item lists a page can carry
PageItems == {<<>>, <<StoreItem("1")>>, <<StoreItem("2"), StoreItem("3")>>}

\* the outputs the store can return to the n-th query of an invocation
QueryOutputs(n) ==
    {[Items |-> its, LastEvaluatedKey |-> k] :
        its \in PageItems,
        k \in IF n >= MaxQueries THEN {NilKey} ELSE {NilKey, ZeroKey, PageKey(n)}}

\* every output the store can return to some query of an invocation
AllQueryOutputs == UNION {QueryOutputs(n) : n \in 1..MaxQueries}

ZeroQueryOutput == [Items |-> <<>>, LastEvaluatedKey |-> NilKey]

-----------------------------------------------------------------------------
(* Response shaping.                                                       *)

CORSHeaders ==
    ("Access-Control-Allow-Headers" :>
        "Content-Type,X-Amz-Date,Authorization,X-Api-Key,X-Amz-Security-Token,authorization-token")
    @@ ("Access-Control-Allow-Origin" :> "*")
    @@ ("Access-Control-Allow-Methods" :> "OPTIONS,POST,GET")

\* json.Marshal of one item: an object of the attribute structs, keys sorted
JsonMarshalItem(item) ==
    "{\"EpochTime\":{\"Value\":\"" \o item["EpochTime"].s \o "\"}}"

RECURSIVE JsonJoinItems(_)
JsonJoinItems(s) ==
    IF Len(s) = 0 THEN ""
    ELSE IF Len(s) = 1 THEN JsonMarshalItem(s[1])
    ELSE JsonMarshalItem(s[1]) \o "," \o JsonJoinItems(Tail(s))

\* json.Marshal of the items slice: a nil slice encodes as null
JsonMarshalItems(slice) ==
    IF slice.isNil THEN "null" ELSE "[" \o JsonJoinItems(slice.s) \o "]"

GetSuccessResponse(its) ==
    [StatusCode |-> 200, Body |-> JsonMarshalItems(its), Headers |-> CORSHeaders]

PostSuccessResponse ==
    [StatusCode |-> 200, Body |-> "Success! Item added", Headers |-> CORSHeaders]

\* a rejection answered as a bad request
MethodNotAllowedResponse_BadRequest ==
    [StatusCode |-> 400, Body |-> "Method not supported", Headers |-> CORSHeaders]

MethodNotAllowedResponse ==
    [StatusCode |-> 405, Body |-> "Method not supported", Headers |-> CORSHeaders]

\* the response literals the inline handlers build themselves
InlineGetResponse(its) ==
    [StatusCode |-> 200, Body |-> JsonMarshalItems(its), Headers |-> CORSHeaders]

InlinePostResponse ==
    [StatusCode |-> 200, Body |-> "Success! Item added", Headers |-> CORSHeaders]

InlineNotAllowedResponse ==
    [StatusCode |-> 405, Body |-> "Method not supported", Headers |-> CORSHeaders]

-----------------------------------------------------------------------------
(* The pagination engine.                                                  *)

\* getMoreData, line 280: the loop condition on the continuation key
getMoreDataLoops(lastKey) == ~lastKey.isNil

\* an accumulation that keeps the last page only
Accumulate_Overwrite(its, out) == Append_(NilSlice, out.Items)

\* GetData, lines 262 and 287: items = append(items, output.Items...)
Accumulate(its, out) == Append_(its, out.Items)

\* a GetData that resumes in single mode too
GetDataResumes_IgnoresSingle(sgl, lastKey) == getMoreDataLoops(lastKey)

\* GetData, lines 266-268, into the first test of the loop of getMoreData
GetDataResumes(sgl, lastKey) == ~sgl /\ getMoreDataLoops(lastKey)

\* the inline loops: for len(lastEvaluatedKey) != 0
InlineLoops(lastEvaluatedKey) == KeyLen(lastEvaluatedKey) # 0

\* the inline handlers: items = append(items, output.Items...)
InlineAccumulate(its, out) == Append_(its, out.Items)

\* the inline handlers: if !single { for len(lastEvaluatedKey) != 0 {
InlineResumes(sgl, lastEvaluatedKey) == ~sgl /\ InlineLoops(lastEvaluatedKey)

-----------------------------------------------------------------------------
(* Dynamic Go values (interface{}) as encoding/json decodes them.          *)
(* k is the runtime kind; a float64 is held in millionths (n = 1500000 is  *)
(* 1.5), which is exact for the values the model draws.                    *)

AnyString(v) == [k |-> "string", s |-> v, n |-> 0, b |-> FALSE, l |-> <<>>, m |-> EmptyMap]

AnyFloat64(v) == [k |-> "float64", s |-> "", n |-> v, b |-> FALSE, l |-> <<>>, m |-> EmptyMap]

AnyBool(v) == [k |-> "bool", s |-> "", n |-> 0, b |-> v, l |-> <<>>, m |-> EmptyMap]

AnySlice(v) == [k |-> "slice", s |-> "", n |-> 0, b |-> FALSE, l |-> v, m |-> EmptyMap]

AnyMap(v) == [k |-> "map", s |-> "", n |-> 0, b |-> FALSE, l |-> <<>>, m |-> v]

\* the nil interface value: a JSON null
AnyNil == [k |-> "nil", s |-> "", n |-> 0, b |-> FALSE, l |-> <<>>, m |-> EmptyMap]

\* a Go value of a kind the decoder never produces and the marshaler does not name
AnyInt(v) == [k |-> "int", s |-> "", n |-> v, b |-> FALSE, l |-> <<>>, m |-> EmptyMap]

Micro == 1000000

Abs(n) == IF n < 0 THEN 0 - n ELSE n

RECURSIVE PadTo(_, _)
\* the natural number f in exactly `width` digits, zero-padded on the left
PadTo(f, width) ==
    IF width = 0 THEN "" ELSE PadTo(f \div 10, width - 1) \o Digit[(f % 10) + 1]

\* the six digits after the decimal point
Pad6(f) == PadTo(f, 6)

\* fmt.Sprintf("%f", v) of the float64 n / 10^6
FormatF(n) ==
    (IF n < 0 THEN "-" ELSE "") \o IntToStr(Abs(n) \div Micro) \o "." \o Pad6(Abs(n) % Micro)

RECURSIVE TrimZeros(_, _)
\* the fraction f of `width` digits, without its trailing zeros (f > 0)
TrimZeros(f, width) ==
    IF f % 10 = 0 THEN TrimZeros(f \div 10, width - 1) ELSE PadTo(f, width)

\* the %v form of the float64 n / 10^6 (shortest decimal; the values of the
\* model lie in the range that fmt prints without an exponent)
FormatG(n) ==
    (IF n < 0 THEN "-" ELSE "") \o IntToStr(Abs(n) \div Micro)
    \o (IF Abs(n) % Micro = 0 THEN "" ELSE "." \o TrimZeros(Abs(n) % Micro, 6))

\* the keys of the model's maps in sorted order, as fmt prints a map
KeyOrder == <<"x", "y">>

RECURSIVE SprintS(_)
RECURSIVE SprintSList(_)
RECURSIVE SprintSMap(_, _)
\* fmt.Sprintf("%s", v) of an interface{} value
SprintS(v) ==
    CASE v.k = "string" -> v.s
      [] v.k = "float64" -> "%!s(float64=" \o FormatG(v.n) \o ")"
      [] v.k = "bool" -> "%!s(bool=" \o (IF v.b THEN "true" ELSE "false") \o ")"
      [] v.k = "nil" -> "%!s(<nil>)"
      [] v.k = "slice" -> "[" \o SprintSList(v.l) \o "]"
      [] v.k = "map" -> "map[" \o SprintSMap(v.m, KeyOrder) \o "]"
      [] OTHER -> "%!s(int=" \o IntToStr(v.n) \o ")"

SprintSList(l) ==
    IF Len(l) = 0 THEN ""
    ELSE IF Len(l) = 1 THEN SprintS(l[1])
    ELSE SprintS(l[1]) \o " " \o SprintSList(Tail(l))

SprintSMap(m, order) ==
    IF Len(order) = 0 THEN ""
    ELSE IF Head(order) \notin DOMAIN m THEN SprintSMap(m, Tail(order))
    ELSE Head(order) \o ":" \o SprintS(m[Head(order)])
         \o (IF \E i \in 2..Len(order) : order[i] \in DOMAIN m THEN " " ELSE "")
         \o SprintSMap(m, Tail(order))

-----------------------------------------------------------------------------
(* Package utils: the value marshaler.                                     *)

RECURSIVE ListToAttributeValues(_)
RECURSIVE MapToAttributeValues(_)
\* a conversion that leaves the nil elements out of the list
ListToAttributeValues_SkipsNil(anyList) ==
    IF Len(anyList) = 0 THEN <<>>
    ELSE LET value == anyList[Len(anyList)]
             attList == ListToAttributeValues(SubSeq(anyList, 1, Len(anyList) - 1))
         IN  CASE value.k = "string" -> Append(attList, AttributeValueMemberS(value.s))
               [] value.k = "float64" -> Append(attList, AttributeValueMemberN(FormatF(value.n)))
               [] value.k = "bool" -> Append(attList, AttributeValueMemberBOOL(value.b))
               [] value.k = "slice" ->
                    Append(attList, AttributeValueMemberL(ListToAttributeValues(value.l)))
               [] value.k = "map" ->
                    Append(attList, AttributeValueMemberM(MapToAttributeValues(value.m)))
               [] value.k = "nil" -> attList
               [] OTHER -> Append(attList, AttributeValueMemberNULL(TRUE))

ListToAttributeValues(anyList) ==
    IF Len(anyList) = 0 THEN <<>>
    ELSE LET value == anyList[Len(anyList)]
             attList == ListToAttributeValues(SubSeq(anyList, 1, Len(anyList) - 1))
         IN  CASE value.k = "string" -> Append(attList, AttributeValueMemberS(value.s))
               [] value.k = "float64" -> Append(attList, AttributeValueMemberN(FormatF(value.n)))
               [] value.k = "bool" -> Append(attList, AttributeValueMemberBOOL(value.b))
               [] value.k = "slice" ->
                    Append(attList, AttributeValueMemberL(ListToAttributeValues(value.l)))
               [] value.k = "map" ->
                    Append(attList, AttributeValueMemberM(MapToAttributeValues(value.m)))
               [] OTHER -> Append(attList, AttributeValueMemberNULL(TRUE))

\* a switch whose bool case is shadowed by the string case
MapToAttributeValues_BoolAsString(anyMap) ==
    [key \in DOMAIN anyMap |->
        LET value == anyMap[key]
        IN  CASE value.k \in {"string", "bool"} -> AttributeValueMemberS(value.s)
              [] value.k = "float64" -> AttributeValueMemberN(FormatF(value.n))
              [] value.k = "slice" -> AttributeValueMemberL(ListToAttributeValues(value.l))
              [] value.k = "map" -> AttributeValueMemberM(MapToAttributeValues(value.m))
              [] OTHER -> AttributeValueMemberNULL(TRUE)]

MapToAttributeValues(anyMap) ==
    [key \in DOMAIN anyMap |->
        LET value == anyMap[key]
        IN  CASE value.k = "string" -> AttributeValueMemberS(value.s)
              [] value.k = "float64" -> AttributeValueMemberN(FormatF(value.n))
              [] value.k = "bool" -> AttributeValueMemberBOOL(value.b)
              [] value.k = "slice" -> AttributeValueMemberL(ListToAttributeValues(value.l))
              [] value.k = "map" -> AttributeValueMemberM(MapToAttributeValues(value.m))
              [] OTHER -> AttributeValueMemberNULL(TRUE)]

-----------------------------------------------------------------------------
(* Ingestion: the POST branch of projectEndpointHandler.                   *)

\* A request body by its JSON syntax: an object with its members, the
\* literal null, another JSON value (here an array), or text that is not JSON.
ObjectBody(obj) == [syntax |-> "object", obj |-> obj]

NullBody == [syntax |-> "null", obj |-> EmptyMap]

ArrayBody == [syntax |-> "array", obj |-> EmptyMap]

InvalidBody == [syntax |-> "invalid", obj |-> EmptyMap]

\* json.Unmarshal(itemBytes, &itemMap) into a map[string]interface{}: null
\* leaves the map nil without an error, a value that is not an object fails.
JsonUnmarshal(body) ==
    CASE body.syntax = "object" -> [err |-> FALSE, itemMap |-> body.obj]
      [] body.syntax = "null" -> [err |-> FALSE, itemMap |-> EmptyMap]
      [] OTHER -> [err |-> TRUE, itemMap |-> EmptyMap]

\* itemMap[k] of a map[string]interface{}: the nil interface for a missing key
AnyLookup(m, k) == IF k \in DOMAIN m THEN m[k] ELSE AnyNil

\* a handler that forgets the DeviceId check
PostRejected_NoDeviceIdCheck(req) ==
    LET dec == JsonUnmarshal(req.Body)
    IN  \/ dec.err
        \/ ~Has(dec.itemMap, "EpochTime")

\* projectEndpointHandler, lines 135-143: the three log.Fatalln exits
PostRejected(req) ==
    LET dec == JsonUnmarshal(req.Body)
    IN  \/ dec.err
        \/ ~Has(dec.itemMap, "EpochTime")
        \/ ~Has(dec.itemMap, "DeviceId")

\* a handler that keeps the ProjectId of the body when the body has one
PostItemMap_BodyProjectIdWins(req) ==
    LET m0 == JsonUnmarshal(req.Body).itemMap
        m1 == IF Has(m0, "ProjectId") THEN m0
              ELSE MapSet(m0, "ProjectId", AnyString(Lookup(req.PathParameters, "ProjectId")))
        m2 == MapSet(m1, "ProjectId#DeviceId",
                     AnyString(SprintS(AnyLookup(m1, "ProjectId")) \o "#"
                               \o SprintS(AnyLookup(m1, "DeviceId"))))
    IN  IF Has(m2, "LocationId")
        THEN MapSet(m2, "ProjectId#LocationId",
                    AnyString(SprintS(AnyLookup(m2, "ProjectId")) \o "#"
                              \o SprintS(AnyLookup(m2, "LocationId"))))
        ELSE m2

\* projectEndpointHandler, lines 145-156: the injected and derived fields
PostItemMap(req) ==
    LET m0 == JsonUnmarshal(req.Body).itemMap
        m1 == MapSet(m0, "ProjectId", AnyString(Lookup(req.PathParameters, "ProjectId")))
        m2 == MapSet(m1, "ProjectId#DeviceId",
                     AnyString(SprintS(AnyLookup(m1, "ProjectId")) \o "#"
                               \o SprintS(AnyLookup(m1, "DeviceId"))))
    IN  IF Has(m2, "LocationId")
        THEN MapSet(m2, "ProjectId#LocationId",
                    AnyString(SprintS(AnyLookup(m2, "ProjectId")) \o "#"
                              \o SprintS(AnyLookup(m2, "LocationId"))))
        ELSE m2

\* projectEndpointHandler, lines 160-163
PutItemInput(item) == [TableName |-> Some("Telemetry"), Item |-> item]

\* the values a member of a posted object takes in the model
BodyValues(k) ==
    CASE k = "EpochTime" -> {AnyFloat64(Micro), AnyNil, AnyString("x")}
      [] k = "DeviceId" -> {AnyString("d1"), AnyFloat64(1500000),
                            AnySlice(<<AnyString("a"), AnyNil>>)}
      [] k = "LocationId" -> {AnyString("l1")}
      [] k = "ProjectId" -> {AnyString("px")}
      [] k = "ProjectId#DeviceId" -> {AnyString("evil")}
      [] k = "ProjectId#LocationId" -> {AnyString("evil")}
      [] OTHER -> {AnyMap(("x" :> AnySlice(<<AnyFloat64(1500000), AnyBool(TRUE)>>)))}

BodyKeys ==
    <<"EpochTime", "DeviceId", "LocationId", "ProjectId",
      "ProjectId#DeviceId", "ProjectId#LocationId", "Temperature">>

RECURSIVE ObjectsOver(_)
\* every object whose members are among `keys`, each with one of its values
ObjectsOver(keys) ==
    IF Len(keys) = 0 THEN {EmptyMap}
    ELSE LET rest == ObjectsOver(Tail(keys))
         IN  rest \cup {MapSet(o, Head(keys), v) : o \in rest, v \in BodyValues(Head(keys))}

PostBodies == {ObjectBody(o) : o \in ObjectsOver(BodyKeys)} \cup {NullBody, ArrayBody, InvalidBody}

-----------------------------------------------------------------------------
(* The requests of the model. GET requests range over the query string     *)
(* parameters and carry no body; POST requests to the project route range  *)
(* over the bodies; every other request carries neither.                   *)

GetRequests(h) ==
    {[handler |-> h, HTTPMethod |-> "GET", PathParameters |-> pp,
      QueryStringParameters |-> q, Body |-> InvalidBody] :
        pp \in PathParametersOf(h), q \in QueryStringParameterMaps}

PostRequests ==
    {[handler |-> "project", HTTPMethod |-> "POST", PathParameters |-> pp,
      QueryStringParameters |-> EmptyMap, Body |-> body] :
        pp \in PathParametersOf("project"), body \in PostBodies}

OtherRequests(h) ==
    {[handler |-> h, HTTPMethod |-> mth, PathParameters |-> pp,
      QueryStringParameters |-> EmptyMap, Body |-> InvalidBody] :
        pp \in PathParametersOf(h),
        mth \in IF h = "project" THEN Methods \ {"GET", "POST"} ELSE Methods \ {"GET"}}

Requests(h) ==
    GetRequests(h) \cup OtherRequests(h) \cup (IF h = "project" THEN PostRequests ELSE {})

NoRequest ==
    [handler |-> "", HTTPMethod |-> "", PathParameters |-> EmptyMap,
     QueryStringParameters |-> EmptyMap, Body |-> InvalidBody]

-----------------------------------------------------------------------------
(* The invocations.                                                        *)

HandlerInit ==
    /\ pc = "idle"
    /\ request = NoRequest
    /\ input = ZeroQueryInput
    /\ single = FALSE
    /\ output = ZeroQueryOutput
    /\ items = NilSlice
    /\ response = None
    /\ queries = <<>>
    /\ served = <<>>
    /\ puts = <<>>
    /\ marshaled = <<>>

\* the marshaler harness holds nothing
MarshalIdle ==
    /\ anyIn = AnyNil
    /\ attOut = None

\* no authorizer call has been made
AuthIdle ==
    /\ authorizer = ""
    /\ authCalls = <<>>

\* no descriptor is under construction in the builder harness
BuilderIdle == build = <<>>

\* no concurrent invocation runs
ConcurrentIdle ==
    /\ heap = <<>>
    /\ invocations = <<>>

Init ==
    /\ HandlerInit
    /\ MarshalIdle
    /\ AuthIdle
    /\ BuilderIdle
    /\ ConcurrentIdle

\* a GET handler up to its first Query call
StartQuery(req, built) ==
    /\ request' = req
    /\ input' = built.input
    /\ single' = built.single
    /\ queries' = <<built.input>>
    /\ pc' = "waitQuery"
    /\ UNCHANGED <<output, items, response, served, puts, marshaled, notHandlerVars>>

\* a handler that returns a response without calling the store
Respond(req, resp) ==
    /\ request' = req
    /\ response' = Some(resp)
    /\ pc' = "done"
    /\ UNCHANGED <<input, single, output, items, queries, served, puts, marshaled,
                   notHandlerVars>>

\* log.Fatalf / log.Fatalln: the process exits, nothing is returned
Fatal ==
    /\ pc' = "fatal"
    /\ UNCHANGED <<input, single, output, items, response, queries, served, puts,
                   marshaled, notHandlerVars>>

deviceEndpointHandler(req) ==
    /\ pc = "idle"
    /\ IF req.HTTPMethod = "GET"
       THEN StartQuery(req, DeviceBuildQuery(req))
       ELSE Respond(req, MethodNotAllowedResponse)

locationEndpointHandler(req) ==
    /\ pc = "idle"
    /\ IF req.HTTPMethod = "GET"
       THEN StartQuery(req, LocationBuildQuery(req))
       ELSE Respond(req, MethodNotAllowedResponse)

locationEndpointHandlerInline(req) ==
    /\ pc = "idle"
    /\ IF req.HTTPMethod = "GET"
       THEN StartQuery(req, LocationInlineBuildQuery(req))
       ELSE Respond(req, InlineNotAllowedResponse)

projectEndpointHandler(req) ==
    /\ pc = "idle"
    /\ IF req.HTTPMethod = "GET"
       THEN StartQuery(req, ProjectBuildQuery(req))
       ELSE IF req.HTTPMethod = "POST"
       THEN IF PostRejected(req)
            THEN request' = req /\ Fatal
            ELSE LET itemMap == PostItemMap(req)
                     item == MapToAttributeValues(itemMap)
                 IN  /\ request' = req
                     /\ marshaled' = Append(marshaled, itemMap)
                     /\ puts' = Append(puts, PutItemInput(item))
                     /\ pc' = "waitPut"
                     /\ UNCHANGED <<input, single, output, items, response, queries,
                                    served, notHandlerVars>>
       ELSE Respond(req, InlineNotAllowedResponse)

\* The store answers the pending Query call of GetData: the first page.
GetData(out) ==
    /\ pc = "waitQuery"
    /\ request.handler \in {"device", "location"}
    /\ Len(served) = 0
    /\ out \in QueryOutputs(Len(queries))
    /\ output' = out
    /\ served' = Append(served, out)
    /\ items' = Accumulate(items, out)
    /\ IF GetDataResumes(single, out.LastEvaluatedKey)
       THEN /\ input' = [input EXCEPT !.ExclusiveStartKey = out.LastEvaluatedKey]
            /\ queries' = Append(queries, input')
            /\ UNCHANGED <<pc, response>>
       ELSE /\ response' = Some(GetSuccessResponse(items'))
            /\ pc' = "done"
            /\ UNCHANGED <<input, queries>>
    /\ UNCHANGED <<request, single, puts, marshaled, notHandlerVars>>

\* a loop that resumes from the key of the page before the one just returned
getMoreData_StaleKey(out) ==
    /\ pc = "waitQuery"
    /\ request.handler \in {"device", "location"}
    /\ Len(served) > 0
    /\ out \in QueryOutputs(Len(queries))
    /\ output' = out
    /\ served' = Append(served, out)
    /\ items' = Accumulate(items, out)
    /\ IF getMoreDataLoops(out.LastEvaluatedKey)
       THEN /\ input' = [input EXCEPT !.ExclusiveStartKey = output.LastEvaluatedKey]
            /\ queries' = Append(queries, input')
            /\ UNCHANGED <<pc, response>>
       ELSE /\ response' = Some(GetSuccessResponse(items'))
            /\ pc' = "done"
            /\ UNCHANGED <<input, queries>>
    /\ UNCHANGED <<request, single, puts, marshaled, notHandlerVars>>

\* The store answers the pending Query call of the loop of getMoreData.
getMoreData(out) ==
    /\ pc = "waitQuery"
    /\ request.handler \in {"device", "location"}
    /\ Len(served) > 0
    /\ out \in QueryOutputs(Len(queries))
    /\ output' = out
    /\ served' = Append(served, out)
    /\ items' = Accumulate(items, out)
    /\ IF getMoreDataLoops(out.LastEvaluatedKey)
       THEN /\ input' = [input EXCEPT !.ExclusiveStartKey = out.LastEvaluatedKey]
            /\ queries' = Append(queries, input')
            /\ UNCHANGED <<pc, response>>
       ELSE /\ response' = Some(GetSuccessResponse(items'))
            /\ pc' = "done"
            /\ UNCHANGED <<input, queries>>
    /\ UNCHANGED <<request, single, puts, marshaled, notHandlerVars>>

\* The store answers the pending Query call of an inline handler: the first
\* page (before the loop) or a page of the loop.
InlinePage(out) ==
    /\ pc = "waitQuery"
    /\ request.handler \in {"locationInline", "project"}
    /\ out \in QueryOutputs(Len(queries))
    /\ output' = out
    /\ served' = Append(served, out)
    /\ items' = InlineAccumulate(items, out)
    /\ IF (IF Len(served) = 0
           THEN InlineResumes(single, out.LastEvaluatedKey)
           ELSE InlineLoops(out.LastEvaluatedKey))
       THEN /\ input' = [input EXCEPT !.ExclusiveStartKey = out.LastEvaluatedKey]
            /\ queries' = Append(queries, input')
            /\ UNCHANGED <<pc, response>>
       ELSE /\ response' = Some(InlineGetResponse(items'))
            /\ pc' = "done"
            /\ UNCHANGED <<input, queries>>
    /\ UNCHANGED <<request, single, puts, marshaled, notHandlerVars>>

\* a failed query answered with the items accumulated so far
QueryFails_PartialResponse ==
    /\ pc = "waitQuery"
    /\ response' = Some(GetSuccessResponse(items))
    /\ pc' = "done"
    /\ UNCHANGED <<request, input, single, output, items, queries, served, puts,
                   marshaled, notHandlerVars>>

\* The pending Query call returns an error: log.Fatalf.
QueryFails ==
    /\ pc = "waitQuery"
    /\ UNCHANGED request
    /\ Fatal

\* The pending PutItem call returns without error.
PutReturns ==
    /\ pc = "waitPut"
    /\ response' = Some(InlinePostResponse)
    /\ pc' = "done"
    /\ UNCHANGED <<request, input, single, output, items, queries, served, puts,
                   marshaled, notHandlerVars>>

\* The pending PutItem call returns an error: log.Fatalf.
PutFails ==
    /\ pc = "waitPut"
    /\ UNCHANGED request
    /\ Fatal

\* The invocation is over; the platform is ready for the next request.
NextInvocation ==
    /\ pc \in {"done", "fatal"}
    /\ pc' = "idle"
    /\ request' = NoRequest
    /\ input' = ZeroQueryInput
    /\ single' = FALSE
    /\ output' = ZeroQueryOutput
    /\ items' = NilSlice
    /\ response' = None
    /\ queries' = <<>>
    /\ served' = <<>>
    /\ puts' = <<>>
    /\ marshaled' = <<>>
    /\ UNCHANGED notHandlerVars

Next ==
    \/ \E req \in Requests("device") : deviceEndpointHandler(req)
    \/ \E req \in Requests("location") : locationEndpointHandler(req)
    \/ \E req \in Requests("locationInline") : locationEndpointHandlerInline(req)
    \/ \E req \in Requests("project") : projectEndpointHandler(req)
    \/ \E out \in AllQueryOutputs : GetData(out)
    \/ \E out \in AllQueryOutputs : getMoreData(out)
    \/ \E out \in AllQueryOutputs : InlinePage(out)
    \/ QueryFails
    \/ PutReturns
    \/ PutFails
    \/ NextInvocation

Spec == Init /\ [][Next]_vars

-----------------------------------------------------------------------------
(* The marshaler on its own: MapToAttributeValues and ListToAttributeValues *)
(* applied to every dynamic value tree of at most MaxNodes nodes.          *)

\* one value of every kind that has no children
Leaves == {AnyString("a"), AnyFloat64(1500000), AnyBool(TRUE), AnyNil, AnyInt(7)}

RECURSIVE TreesOfSize(_)
RECURSIVE ListsOfSize(_)
RECURSIVE MapsOfSize(_)
\* the value trees of exactly n nodes (n >= 1)
TreesOfSize(n) ==
    (IF n = 1 THEN Leaves ELSE {})
    \cup {AnySlice(l) : l \in ListsOfSize(n - 1)}
    \cup {AnyMap(m) : m \in MapsOfSize(n - 1)}

\* the lists of trees of k nodes in all
ListsOfSize(k) ==
    IF k = 0 THEN {<<>>}
    ELSE UNION {{<<h>> \o t : h \in TreesOfSize(i), t \in ListsOfSize(k - i)} : i \in 1..k}

\* the maps over the keys x and y of trees of k nodes in all
MapsOfSize(k) ==
    IF k = 0 THEN {EmptyMap}
    ELSE {("x" :> v) : v \in TreesOfSize(k)}
         \cup {("y" :> v) : v \in TreesOfSize(k)}
         \cup UNION {{("x" :> a) @@ ("y" :> b) :
                        a \in TreesOfSize(i), b \in TreesOfSize(k - i)} : i \in 1..(k - 1)}

\* the arguments of the marshaler: the lists and the maps
MarshalInputs ==
    UNION {{v \in TreesOfSize(n) : v.k \in {"slice", "map"}} : n \in 1..MaxNodes}

InitMarshal ==
    /\ HandlerInit
    /\ AuthIdle
    /\ BuilderIdle
    /\ ConcurrentIdle
    /\ anyIn \in MarshalInputs
    /\ attOut = None

\* a caller hands a map to MapToAttributeValues
MarshalMap ==
    /\ anyIn.k = "map"
    /\ attOut = None
    /\ attOut' = Some(AttributeValueMemberM(MapToAttributeValues(anyIn.m)))
    /\ UNCHANGED <<anyIn, notMarshalVars>>

\* a caller hands a list to ListToAttributeValues
MarshalList ==
    /\ anyIn.k = "slice"
    /\ attOut = None
    /\ attOut' = Some(AttributeValueMemberL(ListToAttributeValues(anyIn.l)))
    /\ UNCHANGED <<anyIn, notMarshalVars>>

NextMarshal == MarshalMap \/ MarshalList

SpecMarshal == InitMarshal /\ [][NextMarshal]_vars

-----------------------------------------------------------------------------
(* The authorizer lambda: generatePolicy, validateToken and                *)
(* requestAuthorizer, and the earlier revision of requestAuthorizer that   *)
(* holds the switch and the secrets itself.                                *)

\* The authorizer answers at most MaxAuthCalls events in a behaviour.
MaxAuthCalls == 2

\* The secrets of package telemetry/constants, each standing for its value:
\* the secrets differ from one another and from the two sentinels.
SENSORS_TOKEN == "constants.SENSORS_TOKEN"

SCITIZEN_TOKEN == "constants.SCITIZEN_TOKEN"

DOGS_TOKEN == "constants.DOGS_TOKEN"

\* the zero events.APIGatewayCustomAuthorizerPolicy
ZeroPolicyDocument == [Version |-> "", Statement |-> <<>>]

\* the zero events.APIGatewayCustomAuthorizerResponse
ZeroAuthorizerResponse == [PrincipalID |-> "", PolicyDocument |-> ZeroPolicyDocument]

generatePolicy(principalId, effect, resource) ==
    [PrincipalID |-> principalId,
     PolicyDocument |->
        IF effect # "" /\ resource # ""
        THEN [Version |-> "2012-10-17",
              Statement |-> <<[Action |-> <<"execute-api:Invoke">>,
                               Effect |-> effect,
                               Resource |-> <<resource>>]>>]
        ELSE ZeroPolicyDocument]

\* a switch that compares the token with every secret and forgets the project
validateTokenCase_AnyProject(token, project) ==
    CASE token \in {SENSORS_TOKEN, SCITIZEN_TOKEN, DOGS_TOKEN} -> "Allow"
      [] token = "deny" -> "Deny"
      [] token = "unauthorized" -> "Unauthorized"
      [] OTHER -> "Invalid"

\* validateToken: the first case of its switch that holds
validateTokenCase(token, project) ==
    IF token = SENSORS_TOKEN /\ project = "sensors" THEN "Allow"
    ELSE IF token = SCITIZEN_TOKEN /\ project = "scitizen" THEN "Allow"
    ELSE IF token = DOGS_TOKEN /\ project = "dogs" THEN "Allow"
    ELSE IF token = "deny" THEN "Deny"
    ELSE IF token = "unauthorized" THEN "Unauthorized"
    ELSE "Invalid"

\* the switch of the earlier requestAuthorizer, with its literal secrets
inlineTokenCase(token, project) ==
    IF token = "allow" /\ project = "sensors" THEN "Allow"
    ELSE IF token = "39dfjlekjaoviIEJ33To" /\ project = "scitizen" THEN "Allow"
    ELSE IF token = "92DHHeosppfjlHW123Ed" /\ project = "dogs" THEN "Allow"
    ELSE IF token = "deny" THEN "Deny"
    ELSE IF token = "unauthorized" THEN "Unauthorized"
    ELSE "Invalid"

\* what a case of the switch returns: the response and the error ("" is nil);
\* `effect` keeps the effect handed to generatePolicy, "" when it is not called
authReturn(case, event) ==
    CASE case \in {"Allow", "Deny"} ->
            [effect |-> case,
             response |-> generatePolicy("user", case, event.MethodArn),
             err |-> ""]
      [] case = "Unauthorized" ->
            [effect |-> "", response |-> ZeroAuthorizerResponse, err |-> "Unauthorized"]
      [] OTHER ->
            [effect |-> "", response |-> ZeroAuthorizerResponse,
             err |-> "Error: Invalid token"]

validateToken(token, project, event) == authReturn(validateTokenCase(token, project), event)

\* the tokens presented to a revision of the authorizer: its three secrets,
\* the two sentinels and a token that is neither
AuthTokens(revision) ==
    (IF revision = "requestAuthorizer"
     THEN {SENSORS_TOKEN, SCITIZEN_TOKEN, DOGS_TOKEN}
     ELSE {"allow", "39dfjlekjaoviIEJ33To", "92DHHeosppfjlHW123Ed"})
    \cup {"deny", "unauthorized", "other"}

AuthProjects == {"sensors", "scitizen", "dogs"}

MethodArns == {"arn:aws:execute-api:us-east-1:1:api/prod/GET/sensors", ""}

\* the events of the model: with and without the token header and the
\* ProjectId path parameter, with a method ARN and with an empty one
AuthEvents(revision) ==
    {[Headers |-> h, PathParameters |-> pp, MethodArn |-> arn] :
        h \in {EmptyMap} \cup {("authorization-token" :> t) : t \in AuthTokens(revision)},
        pp \in {EmptyMap} \cup {("ProjectId" :> pr) : pr \in AuthProjects},
        arn \in MethodArns}

\* one call of the authorizer: its event and what it returned
AuthCall(event, ret) ==
    [event |-> event, effect |-> ret.effect, response |-> ret.response, err |-> ret.err]

\* an authorizer that goes on refusing once it has refused
requestAuthorizer_RemembersRefusal(event) ==
    /\ authorizer = "requestAuthorizer"
    /\ Len(authCalls) < MaxAuthCalls
    /\ LET token == Lookup(event.Headers, "authorization-token")
           project == Lookup(event.PathParameters, "ProjectId")
           refused == \E i \in 1..Len(authCalls) : authCalls[i].err # ""
       IN  authCalls' =
              Append(authCalls,
                     AuthCall(event,
                              IF refused THEN authReturn("Invalid", event)
                              ELSE validateToken(token, project, event)))
    /\ UNCHANGED <<authorizer, notAuthVars>>

requestAuthorizer(event) ==
    /\ authorizer = "requestAuthorizer"
    /\ Len(authCalls) < MaxAuthCalls
    /\ LET token == Lookup(event.Headers, "authorization-token")
           project == Lookup(event.PathParameters, "ProjectId")
       IN  authCalls' = Append(authCalls, AuthCall(event, validateToken(token, project, event)))
    /\ UNCHANGED <<authorizer, notAuthVars>>

\* the earlier requestAuthorizer
requestAuthorizerInline(event) ==
    /\ authorizer = "requestAuthorizerInline"
    /\ Len(authCalls) < MaxAuthCalls
    /\ LET token == Lookup(event.Headers, "authorization-token")
           project == Lookup(event.PathParameters, "ProjectId")
       IN  authCalls' =
              Append(authCalls, AuthCall(event, authReturn(inlineTokenCase(token, project), event)))
    /\ UNCHANGED <<authorizer, notAuthVars>>

InitAuth ==
    /\ HandlerInit
    /\ MarshalIdle
    /\ BuilderIdle
    /\ ConcurrentIdle
    /\ authorizer \in {"requestAuthorizer", "requestAuthorizerInline"}
    /\ authCalls = <<>>

NextAuth ==
    \/ \E event \in AuthEvents("requestAuthorizer") : requestAuthorizer(event)
    \/ \E event \in AuthEvents("requestAuthorizerInline") : requestAuthorizerInline(event)

SpecAuth == InitAuth /\ [][NextAuth]_vars

-----------------------------------------------------------------------------
(* The query builder on its own: the four calls of lines 22-34 of          *)
(* deviceEndpointHandler, CreateCompositeKey, CreateQueryInput,            *)
(* EvaluateSingleParam and EvaluateStartEndParams, applied one at a time   *)
(* to every request and ordered pair of path parameter names of the model. *)

\* the path parameter values of the harness, "#" inside a value included
BuilderIds == {"p1", "d1", "x", "x#x"}

\* the requests of the harness: ProjectId always, DeviceId when the route has it
BuilderRequests ==
    {[handler |-> "device", HTTPMethod |-> "GET", PathParameters |-> pp,
      QueryStringParameters |-> q, Body |-> InvalidBody] :
        pp \in [{"ProjectId", "DeviceId"} -> BuilderIds] \cup [{"ProjectId"} -> BuilderIds],
        q \in QueryStringParameterMaps}

InitBuilder ==
    /\ HandlerInit
    /\ MarshalIdle
    /\ AuthIdle
    /\ ConcurrentIdle
    /\ build \in {[stage |-> "start", request |-> req, param1 |-> names[1],
                   param2 |-> names[2], primaryValue |-> "", input |-> ZeroQueryInput,
                   single |-> FALSE] :
                     req \in BuilderRequests,
                     names \in {<<"ProjectId", "DeviceId">>, <<"DeviceId", "ProjectId">>}}

\* primaryValue := utils.CreateCompositeKey(&request, param1, param2)
BuildCompositeKey ==
    /\ build.stage = "start"
    /\ build' = [build EXCEPT
                    !.stage = "keyed",
                    !.primaryValue = CreateCompositeKey(build.request, build.param1,
                                                        build.param2)]
    /\ UNCHANGED notBuilderVars

\* input := utils.CreateQueryInput(param1 + "#" + param2, primaryValue)
BuildQueryInput ==
    /\ build.stage = "keyed"
    /\ build' = [build EXCEPT
                    !.stage = "created",
                    !.input = CreateQueryInput(build.param1 \o "#" \o build.param2,
                                               build.primaryValue)]
    /\ UNCHANGED notBuilderVars

\* single := utils.EvaluateSingleParam(&request, input)
BuildSingle ==
    /\ build.stage = "created"
    /\ LET ev == EvaluateSingleParam(build.request, build.input)
       IN  build' = [build EXCEPT !.stage = "single", !.input = ev.input,
                                  !.single = ev.single]
    /\ UNCHANGED notBuilderVars

\* utils.EvaluateStartEndParams(&request, input)
BuildStartEnd ==
    /\ build.stage = "single"
    /\ build' = [build EXCEPT
                    !.stage = "ranged",
                    !.input = EvaluateStartEndParams(build.request, build.input)]
    /\ UNCHANGED notBuilderVars

NextBuilder == BuildCompositeKey \/ BuildQueryInput \/ BuildSingle \/ BuildStartEnd

SpecBuilder == InitBuilder /\ [][NextBuilder]_vars

-----------------------------------------------------------------------------
(* Concurrent invocations of deviceEndpointHandler. The platform runs      *)
(* MaxInvocations invocations of the handler at once; their steps          *)
(* interleave between the calls to the store. Each QueryInput lives at the *)
(* address CreateQueryInput returns, in one address space (the most the    *)
(* invocations could share), and every later call reads and writes it      *)
(* through that address. The store is a table whose                        *)
(* contents do not change and which answers a Query as DynamoDB does: the  *)
(* items of the partition within the EpochTime bounds, in the order and    *)
(* from the start key the descriptor asks for, a page at a time.           *)

\* The number of invocations that run concurrently.
MaxInvocations == 2

\* The store returns at most StorePageSize items in a page.
StorePageSize == 2

Invocations == 1..MaxInvocations

\* the records of the table: the partition key value and the sort key
StoreTable ==
    {[pk |-> "p1#d1", EpochTime |-> 1], [pk |-> "p1#d1", EpochTime |-> 2],
     [pk |-> "p1#d1", EpochTime |-> 3], [pk |-> "p2#d1", EpochTime |-> 2]}

\* the item the store returns for a record
TableItem(rec) ==
    ("ProjectId#DeviceId" :> AttributeValueMemberS(rec.pk))
    @@ ("EpochTime" :> AttributeValueMemberN(IntToStr(rec.EpochTime)))

\* the number a N attribute value holds, -1 when the string is not a number
NumberOf(str) ==
    IF \E n \in 0..9 : IntToStr(n) = str
    THEN CHOOSE n \in 0..9 : IntToStr(n) = str
    ELSE -1

RECURSIVE SortByEpochTime(_, _)
\* the records of a partition in ascending or descending order of EpochTime
SortByEpochTime(recs, forward) ==
    IF recs = {} THEN <<>>
    ELSE LET first == CHOOSE r \in recs :
                        \A o \in recs : IF forward THEN r.EpochTime <= o.EpochTime
                                        ELSE r.EpochTime >= o.EpochTime
         IN  <<first>> \o SortByEpochTime(recs \ {first}, forward)

\* api.Query(ctx, input) against the table: the error and the output
StoreQuery(in) ==
    LET vals == in.ExpressionAttributeValues
        eq == "#primaryName = :primaryValue"
        kce == IF in.KeyConditionExpression = None THEN ""
               ELSE in.KeyConditionExpression[1]
        usesStart == kce \in {eq \o " AND EpochTime >= :start",
                              eq \o " AND EpochTime BETWEEN :start AND :end"}
        usesEnd == kce \in {eq \o " AND EpochTime <= :end",
                            eq \o " AND EpochTime BETWEEN :start AND :end"}
        lo == IF usesStart /\ ":start" \in DOMAIN vals THEN NumberOf(vals[":start"].s) ELSE 0
        hi == IF usesEnd /\ ":end" \in DOMAIN vals THEN NumberOf(vals[":end"].s) ELSE 9
        invalid ==
            \/ kce \notin {eq, eq \o " AND EpochTime >= :start", eq \o " AND EpochTime <= :end",
                           eq \o " AND EpochTime BETWEEN :start AND :end"}
            \/ DOMAIN in.ExpressionAttributeNames # {"#primaryName"}
            \/ ":primaryValue" \notin DOMAIN vals
            \/ usesStart /\ (":start" \notin DOMAIN vals \/ vals[":start"].t # "N" \/ lo < 0)
            \/ usesEnd /\ (":end" \notin DOMAIN vals \/ vals[":end"].t # "N" \/ hi < 0)
            \/ usesStart /\ usesEnd /\ lo > hi
        forward == in.ScanIndexForward # Some(FALSE)
        from == in.ExclusiveStartKey
        matching ==
            {r \in StoreTable :
                /\ in.ExpressionAttributeNames["#primaryName"] = "ProjectId#DeviceId"
                /\ r.pk = vals[":primaryValue"].s
                /\ lo <= r.EpochTime /\ r.EpochTime <= hi
                /\ \/ from.isNil
                   \/ "EpochTime" \notin DOMAIN from.m
                   \/ IF forward THEN r.EpochTime > NumberOf(from.m["EpochTime"].s)
                      ELSE r.EpochTime < NumberOf(from.m["EpochTime"].s)}
        size == IF in.Limit # None /\ in.Limit[1] < StorePageSize
                THEN in.Limit[1] ELSE StorePageSize
        sorted == SortByEpochTime(matching, forward)
        page == IF Len(sorted) > size THEN SubSeq(sorted, 1, size) ELSE sorted
    IN  IF invalid THEN [err |-> TRUE, output |-> ZeroQueryOutput]
        ELSE [err |-> FALSE,
              output |->
                [Items |-> [k \in 1..Len(page) |-> TableItem(page[k])],
                 LastEvaluatedKey |->
                    IF Len(page) = size THEN PageKey(page[Len(page)].EpochTime)
                    ELSE NilKey]]

\* the requests of the concurrent invocations
ConcurrentRequests ==
    {[handler |-> "device", HTTPMethod |-> "GET", PathParameters |-> pp,
      QueryStringParameters |-> q, Body |-> InvalidBody] :
        pp \in PathParametersOf("device"),
        q \in {EmptyMap, ("single" :> "true"), ("start" :> "2"), ("end" :> "2"),
               ("start" :> "2") @@ ("end" :> "3") @@ ("single" :> "true"),
               ("start" :> "x")}}
    \cup {[handler |-> "device", HTTPMethod |-> "POST",
           PathParameters |-> ("ProjectId" :> "p1") @@ ("DeviceId" :> "d1"),
           QueryStringParameters |-> EmptyMap, Body |-> InvalidBody]}

\* the locals of an invocation that has not started
IdleInvocation ==
    [pc |-> "idle", request |-> NoRequest, input |-> 0, single |-> FALSE,
     lastKey |-> NilKey, fetched |-> 0, items |-> NilSlice, response |-> None]

\* a constructor that hands out one descriptor kept at package level
NewQueryInput_PackageLevel(h) == 1

\* &dynamodb.QueryInput{...}: the address of a fresh object
NewQueryInput(h) == Len(h) + 1

InitConcurrent ==
    /\ HandlerInit
    /\ MarshalIdle
    /\ AuthIdle
    /\ BuilderIdle
    /\ heap = <<>>
    /\ invocations = [i \in Invocations |-> IdleInvocation]

\* deviceEndpointHandler of invocation i up to its first call to the store,
\* or to its return when the method is not GET
Invoke(i, req) ==
    /\ invocations[i].pc = "idle"
    /\ IF req.HTTPMethod = "GET"
       THEN LET built == DeviceBuildQuery(req)
                a == NewQueryInput(heap)
            IN  /\ heap' = IF a \in DOMAIN heap THEN [heap EXCEPT ![a] = built.input]
                           ELSE Append(heap, built.input)
                /\ invocations' =
                      [invocations EXCEPT ![i] =
                          [@ EXCEPT !.pc = "query", !.request = req, !.input = a,
                                    !.single = built.single]]
       ELSE /\ invocations' =
                  [invocations EXCEPT ![i] =
                      [@ EXCEPT !.pc = "done", !.request = req,
                                !.response = Some(MethodNotAllowedResponse)]]
            /\ UNCHANGED heap
    /\ UNCHANGED notConcurrentVars

\* one page fetch of invocation i: the Query call of GetData, or one turn of
\* the loop of getMoreData, with what follows it up to the next call
FetchPage(i) ==
    /\ invocations[i].pc = "query"
    /\ LET inv == invocations[i]
           a == inv.input
           sent == IF inv.fetched = 0 THEN heap[a]
                   ELSE [heap[a] EXCEPT !.ExclusiveStartKey = inv.lastKey]
           res == StoreQuery(sent)
           its == Accumulate(inv.items, res.output)
           lastKey == res.output.LastEvaluatedKey
           resumes == IF inv.fetched = 0 THEN GetDataResumes(inv.single, lastKey)
                      ELSE getMoreDataLoops(lastKey)
       IN  /\ heap' = [heap EXCEPT ![a] = sent]
           /\ invocations' =
                 [invocations EXCEPT ![i] =
                     IF res.err THEN [@ EXCEPT !.pc = "fatal"]
                     ELSE IF resumes
                     THEN [@ EXCEPT !.items = its, !.lastKey = lastKey,
                                    !.fetched = @ + 1]
                     ELSE [@ EXCEPT !.pc = "done", !.items = its,
                                    !.lastKey = lastKey, !.fetched = @ + 1,
                                    !.response = Some(GetSuccessResponse(its))]]
    /\ UNCHANGED notConcurrentVars

NextConcurrent ==
    \/ \E i \in Invocations, req \in ConcurrentRequests : Invoke(i, req)
    \/ \E i \in Invocations : FetchPage(i)

SpecConcurrent == InitConcurrent /\ [][NextConcurrent]_vars

-----------------------------------------------------------------------------
(* The claims about the query builder.                                     *)

\* the running invocation is a GET that has built its descriptor
Querying == request.HTTPMethod = "GET" /\ Len(queries) > 0

StartPresent == "start" \in DOMAIN request.QueryStringParameters

EndPresent == "end" \in DOMAIN request.QueryStringParameters

\* the strings that strconv.ParseBool documents as true
TruthyStrings == {"1", "t", "T", "TRUE", "true", "True"}

\* the `single` parameter is present and parses as true
SingleRequested ==
    /\ "single" \in DOMAIN request.QueryStringParameters
    /\ request.QueryStringParameters["single"] \in TruthyStrings

\* the partition equality each route writes into its key condition
PartitionCondition(h) ==
    CASE h = "project" -> "ProjectId = :project"
      [] h = "locationInline" -> "#primaryKey = :project_location"
      [] OTHER -> "#primaryName = :primaryValue"

\* the key condition of the truth table of start and end
ExpectedKeyCondition(h, startOk, endOk) ==
    PartitionCondition(h) \o
        (IF startOk /\ endOk THEN " AND EpochTime BETWEEN :start AND :end"
         ELSE IF startOk THEN " AND EpochTime >= :start"
         ELSE IF endOk THEN " AND EpochTime <= :end"
         ELSE "")

\* C1: every query of a GET carries the key condition that the presence of
\* start and end selects (between, lower bound, upper bound, partition only),
\* and binds :start and :end exactly for the parameters that are present,
\* each to the raw parameter string as a number operand.
C1_KeyConditionTruthTable ==
    Querying =>
        \A i \in 1..Len(queries) :
            LET q == queries[i]
                vals == q.ExpressionAttributeValues
            IN  /\ q.KeyConditionExpression =
                       Some(ExpectedKeyCondition(request.handler, StartPresent, EndPresent))
                /\ (":start" \in DOMAIN vals) <=> StartPresent
                /\ (":end" \in DOMAIN vals) <=> EndPresent
                /\ StartPresent =>
                       vals[":start"] =
                           AttributeValueMemberN(request.QueryStringParameters["start"])
                /\ EndPresent =>
                       vals[":end"] =
                           AttributeValueMemberN(request.QueryStringParameters["end"])

\* a device query was issued with both bounds present, the lower one not a number
C1_Witness ==
    /\ pc = "waitQuery"
    /\ request.handler = "device"
    /\ StartPresent /\ EndPresent
    /\ request.QueryStringParameters["start"] = "x"

\* C2: when `single` is present and parses as true, every query handed to
\* the store has Limit = 1 and ScanIndexForward = false, whatever start and
\* end parameters are present as well.
C2_SingleForcesCapAndOrder ==
    (Querying /\ SingleRequested) =>
        \A i \in 1..Len(queries) :
            /\ queries[i].Limit = Some(1)
            /\ queries[i].ScanIndexForward = Some(FALSE)

\* a single-mode query of the utils-based location handler with both bounds present
C2_Witness ==
    /\ pc = "waitQuery"
    /\ request.handler = "location"
    /\ SingleRequested
    /\ StartPresent /\ EndPresent

\* C3: when `single` is absent, unparsable or false, single mode is off: the
\* local `single` is false, no query carries a cap or a scan order, the
\* handler reaches its first query (no error for an unparsable value) and
\* returns only after a page without continuation key.
C3_SingleOffOtherwise ==
    (request.HTTPMethod = "GET" /\ ~SingleRequested) =>
        /\ single = FALSE
        /\ Len(queries) >= 1
        /\ \A i \in 1..Len(queries) :
                queries[i].Limit = None /\ queries[i].ScanIndexForward = None
        /\ pc = "done" =>
                /\ Len(served) = Len(queries)
                /\ KeyLen(served[Len(served)].LastEvaluatedKey) = 0

\* an unparsable `single` and a response after more than one page
C3_Witness ==
    /\ pc = "done"
    /\ request.HTTPMethod = "GET"
    /\ request.handler = "device"
    /\ "single" \in DOMAIN request.QueryStringParameters
    /\ request.QueryStringParameters["single"] = "yes"
    /\ Len(served) >= 2

-----------------------------------------------------------------------------
(* The claims about the pagination engine.                                 *)

RECURSIVE ConcatItems(_)
\* items(p1) ++ ... ++ items(pN)
ConcatItems(pages) ==
    IF Len(pages) = 0 THEN <<>> ELSE pages[1].Items \o ConcatItems(Tail(pages))

\* pages 1..N-1 carry a non-empty continuation key and page N an empty one
ProperPageSequence(pages) ==
    /\ Len(pages) >= 1
    /\ \A i \in 1..(Len(pages) - 1) : KeyLen(pages[i].LastEvaluatedKey) > 0
    /\ KeyLen(pages[Len(pages)].LastEvaluatedKey) = 0

\* C4: in non-single mode, when the pages the store served are p1..pN with
\* non-empty continuation keys on p1..pN-1 and an empty one on pN and no
\* query failed, the handler returns the concatenation of the items of
\* p1..pN, in page order and in the order within each page.
C4_AllPagesInOrder ==
    (pc = "done" /\ Querying /\ ~SingleRequested /\ ProperPageSequence(served)) =>
        /\ items.s = ConcatItems(served)
        /\ response = Some(GetSuccessResponse([isNil |-> Len(ConcatItems(served)) = 0,
                                               s |-> ConcatItems(served)]))

\* three pages were returned, the first of one item and the second of two
C4_Witness ==
    /\ pc = "done"
    /\ Querying /\ ~SingleRequested
    /\ request.handler = "device"
    /\ Len(served) = 3
    /\ ProperPageSequence(served)
    /\ Len(served[1].Items) = 1
    /\ Len(served[2].Items) = 2

\* C5: in non-single mode a further query follows every page whose
\* continuation key is non-empty and no query follows a page whose
\* continuation key is empty, be it the nil map or a map without entries.
C5_StopsAtFirstEmptyKey ==
    (Querying /\ ~SingleRequested) =>
        \A i \in 1..Len(served) :
            IF KeyLen(served[i].LastEvaluatedKey) = 0
            THEN Len(queries) = i
            ELSE Len(queries) >= i + 1

\* C6: in single mode the invocation issues exactly one query, also when
\* the first page carries a continuation key, and what it returns is the
\* items of that page.
C6_SingleNeverResumes ==
    (Querying /\ SingleRequested) =>
        /\ Len(queries) = 1
        /\ Len(served) = 1 =>
                /\ pc = "done"
                /\ items.s = served[1].Items
                /\ response = Some(GetSuccessResponse(items))

\* a single-mode response after a first page that carried a continuation key
C6_Witness ==
    /\ pc = "done"
    /\ Querying /\ SingleRequested
    /\ request.handler = "device"
    /\ Len(served) = 1
    /\ KeyLen(served[1].LastEvaluatedKey) > 0
    /\ Len(served[1].Items) = 2

\* a query of the invocation has failed: it got no page and none is pending
QueryFailed == pc # "waitQuery" /\ Len(queries) > Len(served)

\* C7: once a query has failed, on the first page or a later one, the
\* invocation issues no further query (the failed one is not repeated) and
\* never returns a response, whatever items the earlier pages brought.
C7_QueryFailureAborts ==
    [][/\ QueryFailed' => (pc' = "fatal" /\ response' = None)
       /\ QueryFailed => (queries' = queries \/ (pc' = "idle" /\ queries' = <<>>))]_vars

\* the query for the second page failed after the first page brought items
C7_Witness ==
    /\ pc = "fatal"
    /\ QueryFailed
    /\ Len(served) = 1
    /\ Len(items.s) > 0

-----------------------------------------------------------------------------
(* The claims about the value marshaler.                                   *)

Variants == {"S", "N", "BOOL", "L", "M", "NULL"}

\* the variant of each runtime kind
VariantOfKind(k) ==
    CASE k = "string" -> "S"
      [] k = "float64" -> "N"
      [] k = "bool" -> "BOOL"
      [] k = "slice" -> "L"
      [] k = "map" -> "M"
      [] OTHER -> "NULL"

Min(a, b) == IF a < b THEN a ELSE b

RECURSIVE Classified(_, _)
\* att is the one variant of v's kind, and so are the children they share
Classified(v, att) ==
    /\ att.t \in Variants
    /\ att.t = VariantOfKind(v.k)
    /\ att.t = "NULL" => att.b = TRUE
    /\ v.k = "slice" =>
            \A i \in 1..Min(Len(v.l), Len(att.l)) : Classified(v.l[i], att.l[i])
    /\ v.k = "map" =>
            \A key \in DOMAIN v.m \cap DOMAIN att.m : Classified(v.m[key], att.m[key])

\* C8: the marshaler is total and its classification exhaustive and
\* exclusive: it returns a value for every input tree, and every node of
\* the result is the one variant of the runtime kind of the input node
\* (string S, float64 N, bool BOOL, list L, map M, anything else NULL).
C8_MarshalerTotalClassification ==
    /\ attOut = None => ENABLED NextMarshal
    /\ attOut # None => Classified(anyIn, attOut[1])

\* a list holding a value of an unnamed kind, a null and a map was converted
C8_Witness ==
    /\ attOut # None
    /\ anyIn.k = "slice"
    /\ Len(anyIn.l) = 3
    /\ anyIn.l[1].k = "int"
    /\ anyIn.l[2].k = "nil"
    /\ anyIn.l[3].k = "map"

RECURSIVE SameShape(_, _)
\* att has the keys of the map v, or the length and element order of the
\* list v, at every depth, and each leaf has the variant of its kind
SameShape(v, att) ==
    CASE v.k = "slice" ->
            /\ att.t = "L"
            /\ Len(att.l) = Len(v.l)
            /\ \A i \in 1..Len(v.l) : SameShape(v.l[i], att.l[i])
      [] v.k = "map" ->
            /\ att.t = "M"
            /\ DOMAIN att.m = DOMAIN v.m
            /\ \A key \in DOMAIN v.m : SameShape(v.m[key], att.m[key])
      [] OTHER ->
            /\ att.t = VariantOfKind(v.k)
            /\ v.k = "string" => att.s = v.s
            /\ v.k = "bool" => att.b = v.b

\* C9: the marshaler preserves the shape of the tree: the same key set for
\* every map, the same length and element order for every list, empty
\* lists and maps included, at every depth.
C9_MarshalerPreservesShape ==
    attOut # None => SameShape(anyIn, attOut[1])

\* a map was converted that holds a list of a null and a string
C9_Witness ==
    /\ attOut # None
    /\ anyIn.k = "map"
    /\ DOMAIN anyIn.m = {"x"}
    /\ anyIn.m["x"].k = "slice"
    /\ Len(anyIn.m["x"].l) = 2
    /\ anyIn.m["x"].l[1].k = "nil"
    /\ anyIn.m["x"].l[2].k = "string"

-----------------------------------------------------------------------------
(* The claims about ingestion.                                             *)

\* the posted body is no JSON object or lacks one of the required members
LacksRequired(body) ==
    \/ body.syntax # "object"
    \/ "EpochTime" \notin DOMAIN body.obj
    \/ "DeviceId" \notin DOMAIN body.obj

\* C10: a POST whose body is not decodable or lacks EpochTime or DeviceId
\* is fatal to the invocation: no put is issued, the marshaler is not
\* called and no response is returned.
C10_IncompleteBodyRejected ==
    (request.HTTPMethod = "POST" /\ request.handler = "project"
        /\ LacksRequired(request.Body)) =>
        /\ pc = "fatal"
        /\ puts = <<>>
        /\ marshaled = <<>>
        /\ response = None

\* the body {"DeviceId":"d1"} was posted and the invocation died
C10_Witness ==
    /\ pc = "fatal"
    /\ request.HTTPMethod = "POST"
    /\ request.Body = ObjectBody(("DeviceId" :> AnyString("d1")))

-----------------------------------------------------------------------------
(* C11: derived fields of an accepted ingestion.                           *)

\* the invocation is a POST to the project route that reached the marshaler
Ingested == request.HTTPMethod = "POST" /\ Len(marshaled) > 0

\* the posted object of the running invocation
PostedObject == request.Body.obj

\* the path's project identifier of the running invocation
PathProjectId == Lookup(request.PathParameters, "ProjectId")

\* member k of the posted object is a JSON string
PostedString(k) == k \in DOMAIN PostedObject /\ PostedObject[k].k = "string"

\* the map handed to the marshaler and the item written hold string str under k
HandedAndWritten(k, str) ==
    /\ Has(marshaled[1], k) /\ marshaled[1][k] = AnyString(str)
    /\ Has(puts[1].Item, k) /\ puts[1].Item[k] = AttributeValueMemberS(str)

-----------------------------------------------------------------------------
(* C12: the shape of every written record.                                 *)

\* the written item has the four required attributes, ProjectId and DeviceId
\* stored as String, EpochTime as Number, and a composite key that is the
\* stored ProjectId, "#", the stored DeviceId
WellFormedRecord(item) ==
    /\ {"ProjectId", "EpochTime", "DeviceId", "ProjectId#DeviceId"} \subseteq DOMAIN item
    /\ item["ProjectId"].t = "S"
    /\ item["DeviceId"].t = "S"
    /\ item["EpochTime"].t = "N"
    /\ item["ProjectId#DeviceId"] =
          AttributeValueMemberS(item["ProjectId"].s \o "#" \o item["DeviceId"].s)

\* C12: every record the ingestion path writes, whatever JSON object was
\* posted (EpochTime or DeviceId being null, a number, a list or an object
\* included), has ProjectId, EpochTime, DeviceId and ProjectId#DeviceId, with
\* ProjectId and DeviceId stored as String, EpochTime as Number, and
\* ProjectId#DeviceId equal to the stored ProjectId, "#", the stored DeviceId.
C12_WrittenRecordWellFormed ==
    \A i \in 1..Len(puts) : WellFormedRecord(puts[i].Item)

-----------------------------------------------------------------------------
(* C16: unsupported methods.                                               *)

\* the running invocation carries a method its handler does not serve
UnsupportedMethod ==
    /\ request.handler # ""
    /\ request.HTTPMethod \notin
          (IF request.handler = "project" THEN {"GET", "POST"} ELSE {"GET"})

\* C16: a request whose method the handler does not serve (anything but GET on
\* the device and location routes, anything but GET and POST on the project
\* route) is answered, as a normal response, with status 405, the body
\* "Method not supported" and the fixed CORS headers, and no query and no put
\* is issued.
C16_MethodNotSupported ==
    UnsupportedMethod =>
        /\ pc = "done"
        /\ response = Some([StatusCode |-> 405,
                            Body |-> "Method not supported",
                            Headers |->
                                [h \in {"Access-Control-Allow-Headers",
                                        "Access-Control-Allow-Origin",
                                        "Access-Control-Allow-Methods"} |->
                                    CASE h = "Access-Control-Allow-Origin" -> "*"
                                      [] h = "Access-Control-Allow-Methods" -> "OPTIONS,POST,GET"
                                      [] OTHER -> "Content-Type,X-Amz-Date,Authorization,"
                                                  \o "X-Api-Key,X-Amz-Security-Token,"
                                                  \o "authorization-token"]])
        /\ queries = <<>>
        /\ puts = <<>>

\* a POST to the device route answered with 405
C16_Witness ==
    /\ request.handler = "device"
    /\ request.HTTPMethod = "POST"
    /\ pc = "done"
    /\ response # None
    /\ response[1].StatusCode = 405

-----------------------------------------------------------------------------
(* C17: the body of a successful GET.                                      *)

\* C17: every GET that returns a response returns status 200 with a body that
\* is the JSON array of the accumulated records, for every number of records,
\* zero included: then the body is the empty JSON array.
C17_GetBodyIsJsonArray ==
    (request.HTTPMethod = "GET" /\ pc = "done") =>
        /\ response # None
        /\ response[1].StatusCode = 200
        /\ response[1].Body = "[" \o JsonJoinItems(items.s) \o "]"

-----------------------------------------------------------------------------
(* C13, C14: the decisions of the authorizer.                              *)

\* the token and the project of a call, "" when the event lacks them
TokenOf(call) ==
    IF "authorization-token" \in DOMAIN call.event.Headers
    THEN call.event.Headers["authorization-token"] ELSE ""

ProjectOf(call) ==
    IF "ProjectId" \in DOMAIN call.event.PathParameters
    THEN call.event.PathParameters["ProjectId"] ELSE ""

\* the secret registered for each project with the deployed authorizer
RegisteredSecrets ==
    IF authorizer = "requestAuthorizer"
    THEN {<<SENSORS_TOKEN, "sensors">>, <<SCITIZEN_TOKEN, "scitizen">>, <<DOGS_TOKEN, "dogs">>}
    ELSE {<<"allow", "sensors">>, <<"39dfjlekjaoviIEJ33To", "scitizen">>,
          <<"92DHHeosppfjlHW123Ed", "dogs">>}

\* the outcome of a call: the effect it decided, or the kind of its error
Outcome(call) ==
    CASE call.err = "" -> call.effect
      [] call.err = "Unauthorized" -> "Unauthorized"
      [] OTHER -> "Invalid"

\* the response of the call carries a statement with effect e
HasStatement(call, e) ==
    \E k \in 1..Len(call.response.PolicyDocument.Statement) :
        call.response.PolicyDocument.Statement[k].Effect = e

\* C13: a call decides Allow if and only if its token is the secret registered
\* for exactly its project; a secret presented with another project, and any
\* token that is neither registered nor a sentinel (the missing token
\* included), yields the Invalid error, and no response without a registered
\* pair carries an Allow statement.
C13_AllowIffRegistered ==
    \A i \in 1..Len(authCalls) :
        LET call == authCalls[i]
            registered == <<TokenOf(call), ProjectOf(call)>> \in RegisteredSecrets
        IN  /\ Outcome(call) = "Allow" <=> registered
            /\ HasStatement(call, "Allow") => registered
            /\ (~registered /\ TokenOf(call) \notin {"deny", "unauthorized"}) =>
                  /\ Outcome(call) = "Invalid"
                  /\ call.err = "Error: Invalid token"
                  /\ call.response = ZeroAuthorizerResponse

\* the sensors secret is allowed for sensors and is invalid for dogs, and a
\* call without a token is invalid
C13_Witness ==
    /\ authorizer = "requestAuthorizer"
    /\ Len(authCalls) = 2
    /\ TokenOf(authCalls[1]) = SENSORS_TOKEN /\ ProjectOf(authCalls[1]) = "sensors"
    /\ HasStatement(authCalls[1], "Allow")
    /\ TokenOf(authCalls[2]) = SENSORS_TOKEN /\ ProjectOf(authCalls[2]) = "dogs"
    /\ Outcome(authCalls[2]) = "Invalid"

-----------------------------------------------------------------------------
(* C15: the order of the composite key.                                    *)

\* the values of the two named path parameters of the construction, "" when
\* the request lacks one
BuildValue1 ==
    IF build.param1 \in DOMAIN build.request.PathParameters
    THEN build.request.PathParameters[build.param1] ELSE ""

BuildValue2 ==
    IF build.param2 \in DOMAIN build.request.PathParameters
    THEN build.request.PathParameters[build.param2] ELSE ""

\* the composite key of the construction has been computed
KeyBuilt == build.stage # "start"

\* the string holds the separator
HasSeparator(str) == \E i \in 1..Len(str) : SubSeq(str, i, i) = "#"

-----------------------------------------------------------------------------
(* C20: the descriptor CreateQueryInput returns.                           *)

\* the name and the value handed to CreateQueryInput by the construction
BuildName == build.param1 \o "#" \o build.param2

\* the descriptor binds the placeholders of the partition equality to the
\* name and to the value, as a String
BindsPartition(in) ==
    /\ DOMAIN in.ExpressionAttributeNames = {"#primaryName"}
    /\ in.ExpressionAttributeNames["#primaryName"] = BuildName
    /\ ":primaryValue" \in DOMAIN in.ExpressionAttributeValues
    /\ in.ExpressionAttributeValues[":primaryValue"] =
          AttributeValueMemberS(build.primaryValue)

\* the key condition expression of the descriptor is the partition equality,
\* alone or followed by a condition on the sort key
HasPartitionEquality(in) ==
    /\ in.KeyConditionExpression # None
    /\ LET kce == in.KeyConditionExpression[1]
           eq == "#primaryName = :primaryValue"
       IN  \/ kce = eq
           \/ /\ Len(kce) > Len(eq) + 5
              /\ SubSeq(kce, 1, Len(eq) + 5) = eq \o " AND "

\* C20 as stated: immediately after CreateQueryInput, before any refinement
\* runs, the key condition expression of the descriptor is the partition
\* equality bound to the given name and value.
C20_KeyConditionAtConstruction ==
    build.stage = "created" =>
        /\ BindsPartition(build.input)
        /\ HasPartitionEquality(build.input)

\* C20, amended: CreateQueryInput(name, value) returns a descriptor that names
\* the table and binds #primaryName to the name and :primaryValue to the value
\* as a String, with no key condition expression yet; the partition equality
\* over these placeholders is written by EvaluateStartEndParams, and every
\* descriptor that has passed it carries the equality and the two bindings.
C20_BindsThenRefines ==
    /\ build.stage = "created" =>
          /\ BindsPartition(build.input)
          /\ DOMAIN build.input.ExpressionAttributeValues = {":primaryValue"}
          /\ build.input.TableName # None
          /\ build.input.KeyConditionExpression = None
    /\ build.stage = "single" => build.input.KeyConditionExpression = None
    /\ build.stage = "ranged" =>
          /\ BindsPartition(build.input)
          /\ HasPartitionEquality(build.input)

\* the descriptor just built for ProjectId#DeviceId = p1#d1: bound, and
\* without a key condition expression
C20_Witness ==
    /\ build.stage = "created"
    /\ BuildName = "ProjectId#DeviceId"
    /\ build.primaryValue = "p1#d1"
    /\ BindsPartition(build.input)
    /\ build.input.KeyConditionExpression = None

-----------------------------------------------------------------------------
(* C18: interleaved invocations.                                           *)

RECURSIVE RunAlone(_, _, _, _, _)
\* the end of an invocation that runs with no other: the page fetches of
\* GetData and getMoreData one after the other on its own descriptor
RunAlone(in, sgl, its, fetched, lastKey) ==
    LET sent == IF fetched = 0 THEN in ELSE [in EXCEPT !.ExclusiveStartKey = lastKey]
        res == StoreQuery(sent)
        its2 == Accumulate(its, res.output)
        key == res.output.LastEvaluatedKey
    IN  IF res.err THEN [pc |-> "fatal", items |-> its]
        ELSE IF (IF fetched = 0 THEN GetDataResumes(sgl, key) ELSE getMoreDataLoops(key))
        THEN RunAlone(sent, sgl, its2, fetched + 1, key)
        ELSE [pc |-> "done", items |-> its2]

\* what the request gives when its invocation is the only one
Alone(req) ==
    LET built == DeviceBuildQuery(req)
    IN  RunAlone(built.input, built.single, NilSlice, 0, NilKey)

\* invocation i is a GET that has built its descriptor
RunningGet(i) ==
    invocations[i].pc # "idle" /\ invocations[i].request.HTTPMethod = "GET"

\* C18: when several GET invocations run interleaved at page-fetch granularity
\* against a table that does not change, each has a descriptor of its own that
\* still holds its own partition value, and each ends as it would alone: with
\* the same accumulated items in a 200 response, or with the same failure.
C18_InvocationsIsolated ==
    \A i \in Invocations :
        RunningGet(i) =>
            LET inv == invocations[i]
                alone == Alone(inv.request)
            IN  /\ \A j \in Invocations \ {i} : invocations[j].input # inv.input
                /\ inv.input \in DOMAIN heap
                /\ heap[inv.input].ExpressionAttributeValues[":primaryValue"] =
                      AttributeValueMemberS(
                          CreateCompositeKey(inv.request, "ProjectId", "DeviceId"))
                /\ inv.pc \in {"done", "fatal"} =>
                      /\ inv.pc = alone.pc
                      /\ inv.items = alone.items
                /\ inv.pc = "done" =>
                      inv.response = Some(GetSuccessResponse(alone.items))

\* two invocations with different requests, each between two of its pages
C18_Witness ==
    /\ RunningGet(1) /\ RunningGet(2)
    /\ invocations[1].request # invocations[2].request
    /\ invocations[1].pc = "query" /\ invocations[1].fetched = 1
    /\ invocations[2].pc = "query" /\ invocations[2].fetched = 1
    /\ invocations[1].items # invocations[2].items

-----------------------------------------------------------------------------
(* C19: single mode against the table.                                     *)

\* the stored records that satisfy the key condition of the request: the
\* partition of its path, and its start and end bounds, both inclusive
Satisfying(req) ==
    {r \in StoreTable :
        /\ r.pk = Lookup(req.PathParameters, "ProjectId") \o "#"
                    \o Lookup(req.PathParameters, "DeviceId")
        /\ "start" \in DOMAIN req.QueryStringParameters =>
              r.EpochTime >= NumberOf(req.QueryStringParameters["start"])
        /\ "end" \in DOMAIN req.QueryStringParameters =>
              r.EpochTime <= NumberOf(req.QueryStringParameters["end"])}

\* invocation i has returned from a GET that asked for single mode
SingleDone(i) ==
    /\ invocations[i].pc = "done"
    /\ invocations[i].request.HTTPMethod = "GET"
    /\ "single" \in DOMAIN invocations[i].request.QueryStringParameters
    /\ invocations[i].request.QueryStringParameters["single"] \in TruthyStrings

\* C19: with single mode requested, against a store that honours the cap and
\* the descending order, a GET returns at most one record, and when at least
\* one stored record satisfies the key condition the returned record is the
\* one with the greatest EpochTime among them.
C19_SingleReturnsLatest ==
    \A i \in Invocations :
        SingleDone(i) =>
            LET returned == invocations[i].items.s
                among == Satisfying(invocations[i].request)
            IN  /\ Len(returned) <= 1
                /\ among # {} =>
                      /\ Len(returned) = 1
                      /\ \E r \in among :
                            /\ \A o \in among : o.EpochTime <= r.EpochTime
                            /\ returned[1] = TableItem(r)

\* single mode between 2 and 3 on a partition holding 1, 2 and 3 returns 3
C19_Witness ==
    /\ SingleDone(1)
    /\ Cardinality(Satisfying(invocations[1].request)) = 2
    /\ invocations[1].items.s = <<TableItem([pk |-> "p1#d1", EpochTime |-> 3])>>

-----------------------------------------------------------------------------
(* C21: pagination is sequential.                                          *)

\* the descriptor without its resume point
WithoutStartKey(in) == [in EXCEPT !.ExclusiveStartKey = NilKey]

\* C21: within one invocation the first query carries no resume point; the
\* query for page N+1 is issued only after page N has returned and carries
\* exactly the continuation key page N returned; at most one query is in
\* flight; and table, index, key condition, operand values, cap and scan order
\* are the same in all queries of the invocation.
C21_SequentialPagination ==
    /\ Len(served) <= Len(queries)
    /\ Len(queries) <= Len(served) + 1
    /\ Len(queries) = Len(served) + 1 => pc \in {"waitQuery", "fatal"}
    /\ Len(queries) > 0 => queries[1].ExclusiveStartKey = NilKey
    /\ \A n \in 1..(Len(queries) - 1) :
          /\ n <= Len(served)
          /\ queries[n + 1].ExclusiveStartKey = served[n].LastEvaluatedKey
          /\ WithoutStartKey(queries[n + 1]) = WithoutStartKey(queries[1])

\* a third query in flight, resumed from the key of the second page, which
\* differs from the key of the first
C21_Witness ==
    /\ pc = "waitQuery"
    /\ Len(queries) = 3 /\ Len(served) = 2
    /\ served[1].LastEvaluatedKey # served[2].LastEvaluatedKey
    /\ queries[3].ExclusiveStartKey = served[2].LastEvaluatedKey
    /\ queries[3].KeyConditionExpression = queries[1].KeyConditionExpression
    /\ queries[1].Limit = None

-----------------------------------------------------------------------------
(* C22: the derived fields come from the ingestion path only.              *)

\* C22: for every accepted body the composites of the written record are the
\* ones the ingestion path computes, never a value the caller supplied under
\* ProjectId#DeviceId or ProjectId#LocationId, and the written record has
\* ProjectId#LocationId if and only if the body has LocationId.
C22_DerivedFieldsNotFromCaller ==
    Ingested =>
        LET item == puts[1].Item
        IN  /\ PostedString("DeviceId") =>
                  item["ProjectId#DeviceId"] =
                      AttributeValueMemberS(PathProjectId \o "#" \o PostedObject["DeviceId"].s)
            /\ \A k \in {"ProjectId#DeviceId", "ProjectId#LocationId"} :
                  (k \in DOMAIN PostedObject /\ k \in DOMAIN item) =>
                      item[k] # AttributeValueMemberS(PostedObject[k].s)
            /\ "ProjectId#LocationId" \in DOMAIN item <=> "LocationId" \in DOMAIN PostedObject

-----------------------------------------------------------------------------
(* C23: composite keys of different pairs.                                 *)

\* C23: two different pairs of identifiers never produce the same composite
\* key, identifiers that hold a "#" included: the key built for the pair of
\* the request differs from the key of every other pair.
C23_CompositeKeyInjective ==
    (KeyBuilt /\ DOMAIN build.request.PathParameters = {"ProjectId", "DeviceId"}) =>
        \A pp \in [{"ProjectId", "DeviceId"} -> BuilderIds] :
            pp # build.request.PathParameters =>
                CreateCompositeKey([PathParameters |-> pp], build.param1, build.param2)
                    # build.primaryValue

-----------------------------------------------------------------------------
(* C24: the policy of a decision.                                          *)

\* C24: whenever the authorizer returns without an error, for every event, one
\* with an empty method ARN included, the response carries the principal
\* "user" and a policy document with exactly one statement, whose action is
\* execute-api:Invoke, whose effect is the decided effect and whose resource
\* is the method ARN of the event.
C24_DecisionCarriesPolicy ==
    \A i \in 1..Len(authCalls) :
        authCalls[i].err = "" =>
            /\ authCalls[i].effect \in {"Allow", "Deny"}
            /\ authCalls[i].response.PrincipalID = "user"
            /\ authCalls[i].response.PolicyDocument.Statement =
                  <<[Action |-> <<"execute-api:Invoke">>,
                     Effect |-> authCalls[i].effect,
                     Resource |-> <<authCalls[i].event.MethodArn>>]>>

====
